---- MODULE Spec2Model ----
(***************************************************************************)
(* Model of fast-database-clients: the bounded record buffer, the          *)
(* background flush loop of DatabaseClientBase (write_periodically) and    *)
(* the write path of FastInfluxDBClient (write / chunks / outcome log).    *)
(*                                                                         *)
(* Records are numbered 0, 1, 2, ... in the order in which they are        *)
(* appended, so append order is numeric order.  deque.append and           *)
(* deque.popleft are atomic in CPython; any number of producer threads is  *)
(* therefore an interleaving of the single ProducerAppend action with the  *)
(* steps of the scheduler thread.                                          *)
(*                                                                         *)
(* MultiSpec models MultiInfluxDBClient used as a context manager: the     *)
(* dispatching thread (start_workers, write, stop_workers), the queue and  *)
(* the writer processes.  ChunkSpec applies the two chunking functions to  *)
(* arguments drawn from bounded sets, and MetricSpec the construction of   *)
(* an InfluxMetric, its sequence methods and the write precision check.    *)
(* DrainSpec models start() called more than once on one client, each      *)
(* call starting a thread of its own, and ConvertSpec what convert() does  *)
(* to the records of the caller.  Each specification leaves the variables  *)
(* of the others at their idle values.                                     *)
(***************************************************************************)
EXTENDS Integers, Sequences, FiniteSets, TLC

\* ---------------------------------------------------------------- bounds
\* Number of records the producers append in a run.
MaxAppends == 4
\* Last instant of the clock.
MaxTime == 2
\* Largest value of len(d.get("field", "")) of a converted record.
MaxFieldLen == 2
\* Number of write() calls made inside one with-block of the multi client.
MaxWrites == 2
\* Largest number of records handed to one write() of the multi client.
MaxWriteLen == 3
\* Longest list and largest chunk size given to the fixed-count chunking.
MaxListLen == 12
MaxChunk == 5
\* Number of start() calls made on one client.
MaxStarts == 2
\* Number of records given to one convert().
MaxRecords == 2
\* Longest list and largest target given to the cumulative chunking.
MaxLen == 3
MaxTarget == 3

\* ------------------------------------------------------ program constants
\* fast_database_client.py:17 (65_536 in the source, scaled down).
MAX_BUFFER_LENGTH == 3
\* fast_database_client.py:18 (5_000 in the source, scaled down).
WRITE_BATCH_SIZE == 2
\* influx_client.py:312, the write_interval of from_config_file, in clock units.
write_interval == 1
\* influx_client.py:337-339: config value "or WRITE_BATCH_SIZE"; the default.
write_batch_size == WRITE_BATCH_SIZE
\* multiprocessing.cpu_count() of the machine (scaled down).
cpu_count == 2
\* influx_client_multi.py:138,162 (5_000 by default, scaled down).
batch_size == 2
\* influx_client_multi.py:166: JoinableQueue() is built with the default
\* maxsize of 0, which for a multiprocessing queue means no limit.
maxsize == 0

VARIABLES
    buffer,           \* self.buffer: the deque of records, oldest first
    nextId,           \* number of records appended so far (the next record)
    evicted,          \* history: records the deque dropped on overflow
    sincePop,         \* history: appends since the last popleft, counted
                      \* up to MAX_BUFFER_LENGTH + 1
    now,              \* time.time()
    last_write_time,  \* self._last_write_time
    spc,              \* position of the write_periodically thread
    n,                \* length of range(min(WRITE_BATCH_SIZE, len(buffer)))
    metrics,          \* the tuple being built, then passed to write()
    lenAtExtract,     \* history: len(buffer) when the range was evaluated
    atStart,          \* history: the buffer when the range was evaluated
    has_org,          \* self.org is not None
    has_bucket,       \* self.default_bucket is not None
    write_api_open,   \* the write_api of the with-block is open
    chunksLeft,       \* chunks of the generator not yet yielded to the loop
    raised,           \* what write_api.write raised for the current chunk
    outcome,          \* the local variable outcome of write()
    sinkLog,          \* history: every write_api.write call and what it raised
    events,           \* the outcome events handed to logger.info
    exc,              \* the exception that ended the thread, if any
    closePc,          \* position of the caller of close()
    client_closed,    \* self._client.close() was called
    \* ---- MultiInfluxDBClient and its writer processes
    mpc,              \* position of the thread that uses the client
    processes,        \* self.processes, the writers in creation order
    queue,            \* self.queue, the JoinableQueue, oldest item first
    nextRec,          \* the next record handed to write()
    writes,           \* number of write() calls made so far
    toPut,            \* batches of the running write() not yet emitted
    sentLeft,         \* iterations left of the put loop of stop_workers
    joinIdx,          \* index in self.processes of the next join
    inExit,           \* the running stop_workers was called by __exit__
    wpc,              \* position of each writer process
    wbatch,           \* the batch each writer got from the queue
    wexc,             \* the exception that ended each writer, if any
    wlog,             \* history: each writer's write_api.write calls
    reported,         \* history: batches a writer logged as failed
    dispatched,       \* history: every batch put on the queue
    sentinelsPut,     \* history: number of None items put on the queue
    stopCalls,        \* history: number of stop_workers calls made
    cfg_num_workers,  \* the num_workers argument of the constructor
    task_done,        \* number of self.queue.task_done() calls made
    wconn,            \* each writer's client and write_api: "none", "open"
                      \* or "closed"
    \* ---- start() called more than once on one client
    started,          \* number of start() calls made so far
    tpc,              \* position of each write_periodically thread
    tn,               \* each thread's length of the range of line 109
    tmetrics,         \* each thread's tuple being built
    cfg_write_batch_size,  \* the write_batch_size the client is configured with
    \* ---- convert() applied to the caller's records
    c_in,             \* the caller's records when write() is called
    c_recs,           \* the caller's records now
    c_state,          \* "args", "converted", "KeyError", "written", "failed"
    \* ---- the chunking functions, applied to given arguments
    arg_lst,          \* the list handed to a chunking function
    arg_w,            \* len(d["field"]) of each item of the list
    arg_target,       \* target_length of the cumulative chunking
    arg_n,            \* n of the fixed-count chunking
    applied,          \* which function was applied: "none", "fixed", "cumulative"
    result,           \* list(chunks(...)): the chunks yielded
    \* ---- InfluxMetric construction
    m_args,           \* the arguments given to InfluxMetric(...)
    metric,           \* the constructed InfluxMetric
    mstate,           \* "args", "raised", "constructed", "buffered", "flushed"
    m_len,            \* what len(metric) returned; -1 before the call
    m_iter,           \* what list(metric) returned, as attribute names;
                      \* empty before the call
    m_item,           \* the index of a metric[i] and what it returned;
                      \* index -1 before the call
    \* ---- the write precision
    arg_precision,    \* the write_precision argument
    verified,         \* what verify_write_precision(arg_precision) did
    asserted          \* what lines 405-408 of write() did with it

clientVars == <<buffer, nextId, evicted, sincePop, now, last_write_time, spc, n, metrics,
          lenAtExtract, atStart, has_org, has_bucket, write_api_open,
          chunksLeft, raised, outcome, sinkLog, events, exc, closePc,
          client_closed>>

multiVars == <<mpc, processes, queue, nextRec, writes, toPut, sentLeft, joinIdx,
               inExit, wpc, wbatch, wexc, wlog, reported, dispatched,
               sentinelsPut, stopCalls, cfg_num_workers, task_done, wconn>>
chunkVars == <<arg_lst, arg_w, arg_target, arg_n, applied, result>>
seqVars == <<m_len, m_iter, m_item>>
precisionVars == <<arg_precision, verified, asserted>>
metricVars == <<m_args, metric, mstate, seqVars, precisionVars>>
drainVars == <<started, tpc, tn, tmetrics, cfg_write_batch_size>>

convertVars == <<c_in, c_recs, c_state>>

vars == <<clientVars, multiVars, chunkVars, metricVars, drainVars, convertVars>>

\* What a step of the single-process client leaves alone.
otherVars == <<multiVars, chunkVars, metricVars, drainVars, convertVars>>

bufferVars == <<buffer, nextId, evicted, sincePop>>
extractVars == <<n, metrics, lenAtExtract, atStart>>
writeVars == <<write_api_open, chunksLeft, raised, outcome, sinkLog, events>>
configVars == <<has_org, has_bucket>>
closeVars == <<closePc, client_closed>>

\* ------------------------------------------------------------- helpers
Min(a, b) == IF a <= b THEN a ELSE b

\* Mutant of num_workers: the argument is taken as it is, without the limit
\* of cpu_count().
num_workers_unclamped ==
    IF cfg_num_workers = -1 THEN cpu_count ELSE cfg_num_workers

\* influx_client_multi.py:169-171: self.num_workers is cpu_count() for the
\* argument -1, and otherwise the argument, at most cpu_count().
num_workers ==
    IF cfg_num_workers = -1 THEN cpu_count ELSE Min(cfg_num_workers, cpu_count)

Range(s) == {s[i] : i \in 1..Len(s)}

\* Mutant of DequeAppend: a deque without maxlen, which grows.
DequeAppendUnbounded(buf, x) == Append(buf, x)

\* Mutant of DequeAppend: a full deque drops its newest item, not its oldest.
DequeAppendDropNewest(buf, x) ==
    IF Len(buf) >= MAX_BUFFER_LENGTH
    THEN Append(SubSeq(buf, 1, Len(buf) - 1), x)
    ELSE Append(buf, x)

\* deque(maxlen=MAX_BUFFER_LENGTH).append(x): a full deque drops its leftmost
\* item, then x is added on the right.
DequeAppend(buf, x) ==
    IF Len(buf) >= MAX_BUFFER_LENGTH
    THEN Append(Tail(buf), x)
    ELSE Append(buf, x)

\* The item a full deque drops on append (none when there is room).
DequeDropped(buf) ==
    IF Len(buf) >= MAX_BUFFER_LENGTH THEN {Head(buf)} ELSE {}

\* Mutant of PopleftItem: pop() takes the newest item, on the right.
PopRightItem(buf) == buf[Len(buf)]

\* deque.popleft(): the item removed and the deque left.
PopleftItem(buf) == Head(buf)
PopleftRest(buf) == Tail(buf)

\* time_condition (line 105) and the condition of line 106.
TimeCondition == (now - last_write_time) > write_interval

\* Mutant of FlushDecision: the size and the time condition must both hold.
FlushDecisionBoth ==
    /\ buffer # <<>>
    /\ (Len(buffer) > WRITE_BATCH_SIZE /\ TimeCondition)

FlushDecision ==
    /\ buffer # <<>>
    /\ (Len(buffer) > WRITE_BATCH_SIZE \/ TimeCondition)

\* Mutant of BatchCount: the whole buffer is taken.
BatchCountAll(len) == len

\* min(WRITE_BATCH_SIZE, len(self.buffer)) of line 109.
BatchCount(len) == Min(WRITE_BATCH_SIZE, len)

\* Mutant of ChunksFrom: the chunk is closed only once its own length
\* exceeds the target, whatever the length of the next item.
RECURSIVE ChunksFromLateCheck(_, _, _, _, _, _, _)
ChunksFromLateCheck(lst, w, target, i, chunk, cum, out) ==
    IF i > Len(lst)
    THEN IF chunk # <<>> THEN Append(out, chunk) ELSE out
    ELSE IF cum > target
         THEN ChunksFromLateCheck(lst, w, target, i + 1, <<lst[i]>>, w[i],
                                  Append(out, chunk))
         ELSE ChunksFromLateCheck(lst, w, target, i + 1, Append(chunk, lst[i]),
                                  cum + w[i], out)

\* Mutant of ChunksFrom: the item that closes a chunk is not put into the
\* new chunk.
RECURSIVE ChunksFromDropFirst(_, _, _, _, _, _, _)
ChunksFromDropFirst(lst, w, target, i, chunk, cum, out) ==
    IF i > Len(lst)
    THEN IF chunk # <<>> THEN Append(out, chunk) ELSE out
    ELSE IF cum + w[i] > target
         THEN ChunksFromDropFirst(lst, w, target, i + 1, <<>>, 0,
                                  Append(out, chunk))
         ELSE ChunksFromDropFirst(lst, w, target, i + 1, Append(chunk, lst[i]),
                                  cum + w[i], out)

\* chunks(lst, target_length) of influx_client.py, with w[i] the value of
\* len(d.get("field", "")) of the i-th item.
RECURSIVE ChunksFrom(_, _, _, _, _, _, _)
ChunksFrom(lst, w, target, i, chunk, cum, out) ==
    IF i > Len(lst)
    THEN IF chunk # <<>> THEN Append(out, chunk) ELSE out
    ELSE IF cum + w[i] > target
         THEN ChunksFrom(lst, w, target, i + 1, <<lst[i]>>, w[i],
                         Append(out, chunk))
         ELSE ChunksFrom(lst, w, target, i + 1, Append(chunk, lst[i]),
                         cum + w[i], out)

chunks(lst, w, target) == ChunksFrom(lst, w, target, 1, <<>>, 0, <<>>)

\* ----------------------------------------------------------------- Init
\* No MultiInfluxDBClient is in use.
MultiIdle ==
    /\ mpc = "none"
    /\ processes = <<>>
    /\ queue = <<>>
    /\ nextRec = 1
    /\ writes = 0
    /\ toPut = <<>>
    /\ sentLeft = 0
    /\ joinIdx = 1
    /\ inExit = FALSE
    /\ cfg_num_workers = cpu_count
    /\ wpc = [w \in 1..num_workers |-> "new"]
    /\ wbatch = [w \in 1..num_workers |-> <<>>]
    /\ wexc = [w \in 1..num_workers |-> "none"]
    /\ wlog = [w \in 1..num_workers |-> <<>>]
    /\ reported = {}
    /\ dispatched = {}
    /\ sentinelsPut = 0
    /\ stopCalls = 0
    /\ task_done = 0
    /\ wconn = [w \in 1..num_workers |-> "none"]

\* start() is called at most once (the scheduler thread of Spec).
DrainIdle ==
    /\ cfg_write_batch_size = WRITE_BATCH_SIZE
    /\ started = 0
    /\ tpc = [t \in 1..MaxStarts |-> "none"]
    /\ tn = [t \in 1..MaxStarts |-> 0]
    /\ tmetrics = [t \in 1..MaxStarts |-> <<>>]

\* No convert() is under test.
ConvertIdle ==
    /\ c_in = <<>>
    /\ c_recs = <<>>
    /\ c_state = "none"

\* No chunking function is under test.
ChunkIdle ==
    /\ arg_lst = <<>>
    /\ arg_w = <<>>
    /\ arg_target = 0
    /\ arg_n = 1
    /\ applied = "none"
    /\ result = <<>>

\* No InfluxMetric is being constructed.
MetricIdle ==
    /\ m_args = [measurement |-> "str", fields |-> {}]
    /\ metric = [measurement |-> "str", fields |-> {}]
    /\ mstate = "none"
    /\ m_len = -1
    /\ m_iter = <<>>
    /\ m_item = [index |-> -1, value |-> "unset"]
    /\ arg_precision = "None"
    /\ verified = "unset"
    /\ asserted = "unset"

Init ==
    /\ DrainIdle
    /\ ConvertIdle
    /\ MultiIdle
    /\ ChunkIdle
    /\ MetricIdle
    /\ buffer = <<>>
    /\ nextId = 0
    /\ evicted = {}
    /\ sincePop = 0
    /\ now = 0
    /\ last_write_time = 0
    /\ spc = "idle"
    /\ n = 0
    /\ metrics = <<>>
    /\ lenAtExtract = 0
    /\ atStart = <<>>
    /\ has_org \in BOOLEAN
    /\ has_bucket \in BOOLEAN
    /\ write_api_open = FALSE
    /\ chunksLeft = <<>>
    /\ raised = "none"
    /\ outcome = "none"
    /\ sinkLog = <<>>
    /\ events = <<>>
    /\ exc = "none"
    /\ closePc = "none"
    /\ client_closed = FALSE

\* ------------------------------------------------------------ producers
\* A producer's buffer.append(record).
ProducerAppend ==
    /\ nextId < MaxAppends
    /\ buffer' = DequeAppend(buffer, nextId)
    /\ evicted' = evicted \cup DequeDropped(buffer)
    /\ nextId' = nextId + 1
    /\ sincePop' = Min(sincePop + 1, MAX_BUFFER_LENGTH + 1)
    /\ UNCHANGED <<now, last_write_time, spc, exc>>
    /\ UNCHANGED <<extractVars, writeVars, configVars, closeVars, otherVars>>

\* The clock advances.
AdvanceTime ==
    /\ now < MaxTime
    /\ now' = now + 1
    /\ UNCHANGED <<bufferVars, last_write_time, spc, exc>>
    /\ UNCHANGED <<extractVars, writeVars, configVars, closeVars, otherVars>>

\* ------------------------------------------------------------ scheduler
\* start(): the write_periodically thread is created and started.
Start ==
    /\ spc = "idle"
    /\ spc' = "loop"
    /\ UNCHANGED <<bufferVars, now, last_write_time, exc>>
    /\ UNCHANGED <<extractVars, writeVars, configVars, closeVars, otherVars>>

\* Lines 105-106 with a true condition: the iteration goes on to extract.
TickFlush ==
    /\ spc = "loop"
    /\ FlushDecision
    /\ spc' = "size"
    /\ UNCHANGED <<bufferVars, now, last_write_time, exc>>
    /\ UNCHANGED <<extractVars, writeVars, configVars, closeVars, otherVars>>

\* Lines 105-106 with a false condition: the loop spins, nothing changes.
TickIdle ==
    /\ spc = "loop"
    /\ ~FlushDecision
    /\ UNCHANGED vars

\* Line 109: range(min(WRITE_BATCH_SIZE, len(self.buffer))) is evaluated
\* once, when the generator expression is created.
Size ==
    /\ spc = "size"
    /\ n' = BatchCount(Len(buffer))
    /\ metrics' = <<>>
    /\ lenAtExtract' = Len(buffer)
    /\ atStart' = buffer
    /\ spc' = IF BatchCount(Len(buffer)) = 0 THEN "write" ELSE "pop"
    /\ UNCHANGED <<bufferVars, now, last_write_time, exc>>
    /\ UNCHANGED <<writeVars, configVars, closeVars, otherVars>>

\* Line 108: one self.buffer.popleft() of the generator; IndexError on an
\* empty deque ends the thread.  After the last one write() is called.
Popleft ==
    /\ spc = "pop"
    /\ IF buffer = <<>>
       THEN /\ spc' = "dead"
            /\ exc' = "IndexError"
            /\ UNCHANGED <<buffer, metrics, sincePop>>
       ELSE /\ metrics' = Append(metrics, PopleftItem(buffer))
            /\ buffer' = PopleftRest(buffer)
            /\ sincePop' = 0
            /\ spc' = IF Len(metrics) + 1 = n THEN "write" ELSE "pop"
            /\ exc' = exc
    /\ UNCHANGED <<nextId, evicted, now, last_write_time>>
    /\ UNCHANGED <<n, lenAtExtract, atStart>>
    /\ UNCHANGED <<writeVars, configVars, closeVars, otherVars>>

\* ---------------------------------------------- FastInfluxDBClient.write
\* Lines 399-415: no org, or no bucket and no default bucket, raises
\* FastInfluxDBClientConfigError out of write() and out of the thread.
WriteConfigError ==
    /\ spc = "write"
    /\ ~has_org \/ ~has_bucket
    /\ spc' = "dead"
    /\ exc' = "FastInfluxDBClientConfigError"
    /\ UNCHANGED <<bufferVars, now, last_write_time>>
    /\ UNCHANGED <<extractVars, writeVars, configVars, closeVars, otherVars>>

\* Line 417: convert() raises for a record it cannot turn into a Point.
WriteConvertError ==
    /\ spc = "write"
    /\ has_org /\ has_bucket
    /\ spc' = "dead"
    /\ exc' = "Exception"
    /\ UNCHANGED <<bufferVars, now, last_write_time>>
    /\ UNCHANGED <<extractVars, writeVars, configVars, closeVars, otherVars>>

\* Lines 417-420: the records are converted, the write_api is opened and
\* the chunk generator is created over the converted records.
WriteOpen ==
    /\ spc = "write"
    /\ has_org /\ has_bucket
    /\ \E w \in [1..Len(metrics) -> 0..MaxFieldLen] :
           chunksLeft' = chunks(metrics, w, write_batch_size)
    /\ write_api_open' = TRUE
    /\ spc' = "chunk"
    /\ UNCHANGED <<bufferVars, now, last_write_time, exc>>
    /\ UNCHANGED <<raised, outcome, sinkLog, events>>
    /\ UNCHANGED <<extractVars, configVars, closeVars, otherVars>>

\* Lines 427-434: write_api.write(record=metrics_batch) returns.
SinkWriteOk ==
    /\ spc = "chunk"
    /\ chunksLeft # <<>>
    /\ sinkLog' = Append(sinkLog, [batch |-> Head(chunksLeft), raised |-> "none"])
    /\ raised' = "none"
    /\ outcome' = "SUCCESS"
    /\ spc' = "finally"
    /\ UNCHANGED <<bufferVars, now, last_write_time, exc>>
    /\ UNCHANGED <<write_api_open, chunksLeft, events>>
    /\ UNCHANGED <<extractVars, configVars, closeVars, otherVars>>

\* Mutant of SinkWriteInfluxDBError: the handler puts the failed batch back
\* at the head of the buffer for a retry.
SinkWriteInfluxDBErrorRequeue ==
    /\ spc = "chunk"
    /\ chunksLeft # <<>>
    /\ sinkLog' = Append(sinkLog, [batch |-> Head(chunksLeft),
                                   raised |-> "InfluxDBError"])
    /\ raised' = "InfluxDBError"
    /\ outcome' = "FAILED"
    /\ buffer' = Head(chunksLeft) \o buffer
    /\ spc' = "finally"
    /\ UNCHANGED <<nextId, evicted, sincePop, now, last_write_time, exc>>
    /\ UNCHANGED <<write_api_open, chunksLeft, events>>
    /\ UNCHANGED <<extractVars, configVars, closeVars, otherVars>>

\* Mutant of SinkWriteInfluxDBError: the handler leaves outcome as it was.
SinkWriteInfluxDBErrorUnmarked ==
    /\ spc = "chunk"
    /\ chunksLeft # <<>>
    /\ sinkLog' = Append(sinkLog, [batch |-> Head(chunksLeft),
                                   raised |-> "InfluxDBError"])
    /\ raised' = "InfluxDBError"
    /\ outcome' = "SUCCESS"
    /\ spc' = "finally"
    /\ UNCHANGED <<bufferVars, now, last_write_time, exc>>
    /\ UNCHANGED <<write_api_open, chunksLeft, events>>
    /\ UNCHANGED <<extractVars, configVars, closeVars, otherVars>>

\* Lines 427-440: write_api.write raises InfluxDBError; the handler sets
\* outcome to FAILED and logs the discarded batch.
SinkWriteInfluxDBError ==
    /\ spc = "chunk"
    /\ chunksLeft # <<>>
    /\ sinkLog' = Append(sinkLog, [batch |-> Head(chunksLeft),
                                   raised |-> "InfluxDBError"])
    /\ raised' = "InfluxDBError"
    /\ outcome' = "FAILED"
    /\ spc' = "finally"
    /\ UNCHANGED <<bufferVars, now, last_write_time, exc>>
    /\ UNCHANGED <<write_api_open, chunksLeft, events>>
    /\ UNCHANGED <<extractVars, configVars, closeVars, otherVars>>

\* Lines 427-434: write_api.write raises an exception that is no
\* InfluxDBError; no handler runs and outcome keeps its initial value.
SinkWriteOtherException ==
    /\ spc = "chunk"
    /\ chunksLeft # <<>>
    /\ sinkLog' = Append(sinkLog, [batch |-> Head(chunksLeft),
                                   raised |-> "Exception"])
    /\ raised' = "Exception"
    /\ outcome' = "SUCCESS"
    /\ spc' = "finally"
    /\ UNCHANGED <<bufferVars, now, last_write_time, exc>>
    /\ UNCHANGED <<write_api_open, chunksLeft, events>>
    /\ UNCHANGED <<extractVars, configVars, closeVars, otherVars>>

\* Mutant of LogOutcome: write_api is used without a with-block, so an
\* exception that leaves write() leaves the write_api open.
LogOutcomeLeak ==
    /\ spc = "finally"
    /\ events' = Append(events, [size |-> Len(Head(chunksLeft)),
                                 outcome |-> outcome])
    /\ IF raised = "Exception"
       THEN /\ spc' = "dead"
            /\ exc' = "Exception"
            /\ UNCHANGED <<chunksLeft, write_api_open>>
       ELSE /\ chunksLeft' = Tail(chunksLeft)
            /\ spc' = "chunk"
            /\ UNCHANGED <<write_api_open, exc>>
    /\ UNCHANGED <<bufferVars, now, last_write_time>>
    /\ UNCHANGED <<raised, outcome, sinkLog>>
    /\ UNCHANGED <<extractVars, configVars, closeVars, otherVars>>

\* Mutant of LogOutcome: the handler of InfluxDBError raises again, as any
\* other exception does, and the remaining chunks are not sent.
LogOutcomeAbort ==
    /\ spc = "finally"
    /\ events' = Append(events, [size |-> Len(Head(chunksLeft)),
                                 outcome |-> outcome])
    /\ IF raised # "none"
       THEN /\ write_api_open' = FALSE
            /\ spc' = "dead"
            /\ exc' = "Exception"
            /\ UNCHANGED chunksLeft
       ELSE /\ chunksLeft' = Tail(chunksLeft)
            /\ spc' = "chunk"
            /\ UNCHANGED <<write_api_open, exc>>
    /\ UNCHANGED <<bufferVars, now, last_write_time>>
    /\ UNCHANGED <<raised, outcome, sinkLog>>
    /\ UNCHANGED <<extractVars, configVars, closeVars, otherVars>>

\* Lines 441-442: the finally clause logs the outcome event.  An exception
\* in flight then leaves the with-block (closing the write_api), write()
\* and the thread; otherwise the loop takes the next chunk.
LogOutcome ==
    /\ spc = "finally"
    /\ events' = Append(events, [size |-> Len(Head(chunksLeft)),
                                 outcome |-> outcome])
    /\ IF raised = "Exception"
       THEN /\ write_api_open' = FALSE
            /\ spc' = "dead"
            /\ exc' = "Exception"
            /\ UNCHANGED chunksLeft
       ELSE /\ chunksLeft' = Tail(chunksLeft)
            /\ spc' = "chunk"
            /\ UNCHANGED <<write_api_open, exc>>
    /\ UNCHANGED <<bufferVars, now, last_write_time>>
    /\ UNCHANGED <<raised, outcome, sinkLog>>
    /\ UNCHANGED <<extractVars, configVars, closeVars, otherVars>>

\* Line 419 (exit of the with-block): the generator is exhausted, the
\* write_api is closed and write() returns to line 112.
WriteReturn ==
    /\ spc = "chunk"
    /\ chunksLeft = <<>>
    /\ write_api_open' = FALSE
    /\ spc' = "stamp"
    /\ UNCHANGED <<bufferVars, now, last_write_time, exc>>
    /\ UNCHANGED <<chunksLeft, raised, outcome, sinkLog, events>>
    /\ UNCHANGED <<extractVars, configVars, closeVars, otherVars>>

\* Line 112: self._last_write_time = time.time(); back to the loop head.
Stamp ==
    /\ spc = "stamp"
    /\ last_write_time' = now
    /\ spc' = "loop"
    /\ UNCHANGED <<bufferVars, now, exc>>
    /\ UNCHANGED <<extractVars, writeVars, configVars, closeVars, otherVars>>

\* ---------------------------------------------------------------- close
\* DatabaseClientBase.close() -> __del__(): self.write_thread.join() is
\* entered (a class that does not override close, e.g. MultiInfluxDBClient).
CloseJoin ==
    /\ spc # "idle"
    /\ closePc = "none"
    /\ closePc' = "joining"
    /\ UNCHANGED <<bufferVars, now, last_write_time, spc, exc, client_closed>>
    /\ UNCHANGED <<extractVars, writeVars, configVars, otherVars>>

\* join() returns once the thread has ended.
JoinReturn ==
    /\ closePc = "joining"
    /\ spc = "dead"
    /\ closePc' = "returned"
    /\ UNCHANGED <<bufferVars, now, last_write_time, spc, exc, client_closed>>
    /\ UNCHANGED <<extractVars, writeVars, configVars, otherVars>>

\* FastInfluxDBClient.close() -> __del__(): self._client.close(), and the
\* call returns; the thread is neither signalled nor joined.
CloseClient ==
    /\ spc # "idle"
    /\ closePc = "none"
    /\ client_closed' = TRUE
    /\ closePc' = "returned"
    /\ UNCHANGED <<bufferVars, now, last_write_time, spc, exc>>
    /\ UNCHANGED <<extractVars, writeVars, configVars, otherVars>>

\* ----------------------------------------------------------------- Next
Scheduler ==
    \/ TickFlush
    \/ TickIdle
    \/ Size
    \/ Popleft
    \/ WriteConfigError
    \/ WriteConvertError
    \/ WriteOpen
    \/ SinkWriteOk
    \/ SinkWriteInfluxDBError
    \/ SinkWriteOtherException
    \/ LogOutcome
    \/ WriteReturn
    \/ Stamp

Next ==
    \/ ProducerAppend
    \/ AdvanceTime
    \/ Start
    \/ Scheduler
    \/ CloseJoin
    \/ JoinReturn
    \/ CloseClient

Spec == Init /\ [][Next]_vars

\* The threads are scheduled fairly: a thread that can take a step does.
FairSpec == Spec /\ WF_vars(Scheduler) /\ WF_vars(JoinReturn)

\* ====================================================== MultiInfluxDBClient
\* The state of the single-process client while the multi client is modelled:
\* its scheduler thread is not started.
ClientIdle ==
    /\ buffer = <<>>
    /\ nextId = 0
    /\ evicted = {}
    /\ sincePop = 0
    /\ now = 0
    /\ last_write_time = 0
    /\ spc = "idle"
    /\ n = 0
    /\ metrics = <<>>
    /\ lenAtExtract = 0
    /\ atStart = <<>>
    /\ has_org = TRUE
    /\ has_bucket = TRUE
    /\ write_api_open = FALSE
    /\ chunksLeft = <<>>
    /\ raised = "none"
    /\ outcome = "none"
    /\ sinkLog = <<>>
    /\ events = <<>>
    /\ exc = "none"
    /\ closePc = "none"
    /\ client_closed = FALSE

\* The values of the num_workers argument that are tried: -1 (one writer per
\* cpu) and 1 up to one more than the machine has cpus.
ConfiguredWorkers == {-1} \cup 1..(cpu_count + 1)

Workers == 1..num_workers

\* The items of the queue: a batch of records, or the termination signal.
Batch(items) == [kind |-> "batch", items |-> items]
None == [kind |-> "None", items |-> <<>>]

\* The batches among the items of a queue.
IsBatch(item) == item.kind = "batch"
BatchesOf(q) == SelectSeq(q, IsBatch)

\* Mutant of fixed_chunks: a last chunk shorter than n is not yielded.
RECURSIVE FixedChunksWhole(_, _, _)
FixedChunksWhole(lst, size, i) ==
    IF i + size > Len(lst)
    THEN <<>>
    ELSE <<SubSeq(lst, i + 1, i + size)>> \o FixedChunksWhole(lst, size, i + size)

\* chunks(lst, n) of client.py and of tests/test_performance.py:
\* for i in range(0, len(lst), n): yield lst[i : i + n]
RECURSIVE FixedChunksFrom(_, _, _)
FixedChunksFrom(lst, size, i) ==
    IF i >= Len(lst)
    THEN <<>>
    ELSE <<SubSeq(lst, i + 1, Min(i + size, Len(lst)))>>
             \o FixedChunksFrom(lst, size, i + size)

fixed_chunks(lst, size) == FixedChunksFrom(lst, size, 0)

\* ops.buffer_with_count(count) over from_iterable(lst): the items in groups
\* of count, the last group possibly shorter, no empty group.
buffer_with_count(lst, count) == fixed_chunks(lst, count)

\* A put on a queue is blocked while the queue is full; a maxsize of 0 or
\* less means the queue is never full.
QueueFull(q) == maxsize > 0 /\ Len(q) >= maxsize

\* Mutant of QueueGet: the newest item is taken.
QueueGetNewest(q) == [item |-> q[Len(q)], rest |-> SubSeq(q, 1, Len(q) - 1)]

\* queue.get(): the oldest item, and the queue left.
QueueGet(q) == [item |-> Head(q), rest |-> Tail(q)]

\* A process that has ended, by returning from run() or by an exception.
Ended(w) == wpc[w] \in {"exited", "died"}

\* The client is constructed (lines 129-175): an empty queue, no processes.
MultiInit ==
    /\ ClientIdle
    /\ DrainIdle
    /\ ConvertIdle
    /\ ChunkIdle
    /\ MetricIdle
    /\ cfg_num_workers \in ConfiguredWorkers
    /\ mpc = "new"
    /\ processes = <<>>
    /\ queue = <<>>
    /\ nextRec = 1
    /\ writes = 0
    /\ toPut = <<>>
    /\ sentLeft = 0
    /\ joinIdx = 1
    /\ inExit = FALSE
    /\ wpc = [w \in Workers |-> "new"]
    /\ wbatch = [w \in Workers |-> <<>>]
    /\ wexc = [w \in Workers |-> "none"]
    /\ wlog = [w \in Workers |-> <<>>]
    /\ reported = {}
    /\ dispatched = {}
    /\ sentinelsPut = 0
    /\ stopCalls = 0
    /\ task_done = 0
    /\ wconn = [w \in Workers |-> "none"]

\* What a step of the multi client or of a writer leaves alone: the other
\* components and the argument the client was constructed with.
notMultiVars == <<clientVars, chunkVars, metricVars, drainVars, convertVars,
                 cfg_num_workers>>

dispatchVars == <<mpc, nextRec, writes, toPut, sentLeft, joinIdx, inExit,
                  dispatched, sentinelsPut, stopCalls>>

\* ------------------------------------------------------------- dispatcher
\* __enter__ -> start_workers(): num_workers writers are created and each
\* is started; start() returns without waiting for the child's run().
StartWorkers ==
    /\ mpc = "new"
    /\ processes' = [i \in 1..num_workers |-> i]
    /\ wpc' = [w \in Workers |-> "init"]
    /\ mpc' = "ready"
    /\ UNCHANGED <<queue, nextRec, writes, toPut, sentLeft, joinIdx, inExit>>
    /\ UNCHANGED <<wbatch, wexc, wlog, reported, task_done, wconn, dispatched,
                   sentinelsPut, stopCalls>>
    /\ UNCHANGED notMultiVars

\* write(metrics): the observable over the records is subscribed; its
\* batches are emitted one after the other on the calling thread.
Write ==
    /\ mpc \in {"ready", "stopped"}
    /\ writes < MaxWrites
    /\ \E len \in 0..MaxWriteLen :
          /\ toPut' = buffer_with_count([i \in 1..len |-> nextRec + i - 1],
                                        batch_size)
          /\ nextRec' = nextRec + len
    /\ writes' = writes + 1
    /\ mpc' = "put"
    /\ UNCHANGED <<processes, queue, sentLeft, joinIdx, inExit>>
    /\ UNCHANGED <<wpc, wbatch, wexc, wlog, reported, task_done, wconn,
                   dispatched, sentinelsPut, stopCalls>>
    /\ UNCHANGED notMultiVars

\* on_next: self.queue.put(batch).
PutBatch ==
    /\ mpc = "put"
    /\ toPut # <<>>
    /\ ~QueueFull(queue)
    /\ queue' = Append(queue, Batch(Head(toPut)))
    /\ dispatched' = dispatched \cup {Head(toPut)}
    /\ toPut' = Tail(toPut)
    /\ UNCHANGED <<mpc, processes, nextRec, writes, sentLeft, joinIdx, inExit>>
    /\ UNCHANGED <<wpc, wbatch, wexc, wlog, reported, task_done, wconn,
                   sentinelsPut, stopCalls>>
    /\ UNCHANGED notMultiVars

\* on_completed: self.stop_workers() is called by write().
Completed ==
    /\ mpc = "put"
    /\ toPut = <<>>
    /\ mpc' = "sentinel"
    /\ sentLeft' = Len(processes)
    /\ inExit' = FALSE
    /\ stopCalls' = stopCalls + 1
    /\ UNCHANGED <<processes, queue, nextRec, writes, toPut, joinIdx>>
    /\ UNCHANGED <<wpc, wbatch, wexc, wlog, reported, task_done, wconn,
                   dispatched, sentinelsPut>>
    /\ UNCHANGED notMultiVars

\* __exit__ -> stop_workers(), at the end of the with-block.
Exit ==
    /\ mpc \in {"ready", "stopped"}
    /\ mpc' = "sentinel"
    /\ sentLeft' = Len(processes)
    /\ inExit' = TRUE
    /\ stopCalls' = stopCalls + 1
    /\ UNCHANGED <<processes, queue, nextRec, writes, toPut, joinIdx>>
    /\ UNCHANGED <<wpc, wbatch, wexc, wlog, reported, task_done, wconn,
                   dispatched, sentinelsPut>>
    /\ UNCHANGED notMultiVars

\* Lines 202-203: for _ in self.processes: self.queue.put(None).
PutSentinel ==
    /\ mpc = "sentinel"
    /\ sentLeft > 0
    /\ ~QueueFull(queue)
    /\ queue' = Append(queue, None)
    /\ sentinelsPut' = sentinelsPut + 1
    /\ sentLeft' = sentLeft - 1
    /\ UNCHANGED <<mpc, processes, nextRec, writes, toPut, joinIdx, inExit>>
    /\ UNCHANGED <<wpc, wbatch, wexc, wlog, reported, task_done, wconn,
                   dispatched, stopCalls>>
    /\ UNCHANGED notMultiVars

\* Line 204: the put loop is over, the join loop begins.
StartJoin ==
    /\ mpc = "sentinel"
    /\ sentLeft = 0
    /\ mpc' = "join"
    /\ joinIdx' = 1
    /\ UNCHANGED <<processes, queue, nextRec, writes, toPut, sentLeft, inExit>>
    /\ UNCHANGED <<wpc, wbatch, wexc, wlog, reported, task_done, wconn,
                   dispatched, sentinelsPut, stopCalls>>
    /\ UNCHANGED notMultiVars

\* Mutant of JoinProcess: the join does not wait for the process to end.
JoinProcessNoWait ==
    /\ mpc = "join"
    /\ joinIdx <= Len(processes)
    /\ joinIdx' = joinIdx + 1
    /\ UNCHANGED <<mpc, processes, queue, nextRec, writes, toPut, sentLeft,
                   inExit>>
    /\ UNCHANGED <<wpc, wbatch, wexc, wlog, reported, task_done, wconn,
                   dispatched, sentinelsPut, stopCalls>>
    /\ UNCHANGED notMultiVars

\* Line 205: process.join() returns once that process has ended.
JoinProcess ==
    /\ mpc = "join"
    /\ joinIdx <= Len(processes)
    /\ Ended(processes[joinIdx])
    /\ joinIdx' = joinIdx + 1
    /\ UNCHANGED <<mpc, processes, queue, nextRec, writes, toPut, sentLeft,
                   inExit>>
    /\ UNCHANGED <<wpc, wbatch, wexc, wlog, reported, task_done, wconn,
                   dispatched, sentinelsPut, stopCalls>>
    /\ UNCHANGED notMultiVars

\* stop_workers() returns, to write() and its caller or to __exit__.
StopReturn ==
    /\ mpc = "join"
    /\ joinIdx > Len(processes)
    /\ mpc' = IF inExit THEN "closed" ELSE "stopped"
    /\ UNCHANGED <<processes, queue, nextRec, writes, toPut, sentLeft, joinIdx,
                   inExit>>
    /\ UNCHANGED <<wpc, wbatch, wexc, wlog, reported, task_done, wconn,
                   dispatched, sentinelsPut, stopCalls>>
    /\ UNCHANGED notMultiVars

\* ---------------------------------------------------------------- writers
\* run(), lines 49-54: initialize_client() returns and self.client is set.
WorkerInitOk(w) ==
    /\ w \in Workers
    /\ wpc[w] = "init"
    /\ wconn' = [wconn EXCEPT ![w] = "open"]
    /\ wpc' = [wpc EXCEPT ![w] = "get"]
    /\ UNCHANGED <<processes, queue, wbatch, wexc, wlog, reported, task_done>>
    /\ UNCHANGED dispatchVars
    /\ UNCHANGED notMultiVars

\* run(), lines 49-53: initialize_client() raises, or leaves self.client
\* None and run() raises ValueError; the exception ends the child process.
WorkerInitFail(w) ==
    /\ w \in Workers
    /\ wpc[w] = "init"
    /\ wpc' = [wpc EXCEPT ![w] = "died"]
    /\ wexc' = [wexc EXCEPT ![w] = "InitError"]
    /\ UNCHANGED <<processes, queue, wbatch, wlog, reported, task_done, wconn>>
    /\ UNCHANGED dispatchVars
    /\ UNCHANGED notMultiVars

\* Lines 56-61 and 63: batch = self.queue.get(); for None the loop is left,
\* _close() closes write_api and client, and run() returns.
WorkerGet(w) ==
    /\ w \in Workers
    /\ wpc[w] = "get"
    /\ queue # <<>>
    /\ queue' = QueueGet(queue).rest
    /\ IF QueueGet(queue).item = None
       THEN /\ wpc' = [wpc EXCEPT ![w] = "exited"]
            /\ wconn' = [wconn EXCEPT ![w] = "closed"]
            /\ UNCHANGED wbatch
       ELSE /\ wpc' = [wpc EXCEPT ![w] = "write"]
            /\ wbatch' = [wbatch EXCEPT ![w] = QueueGet(queue).item.items]
            /\ UNCHANGED wconn
    /\ UNCHANGED <<processes, wexc, wlog, reported, task_done>>
    /\ UNCHANGED dispatchVars
    /\ UNCHANGED notMultiVars

\* InfluxDBWriter.write, lines 96-102: write_api.write returns.
WorkerWriteOk(w) ==
    /\ w \in Workers
    /\ wpc[w] = "write"
    /\ wlog' = [wlog EXCEPT ![w] = Append(@, [batch |-> wbatch[w],
                                              raised |-> "none"])]
    /\ task_done' = task_done + 1
    /\ wpc' = [wpc EXCEPT ![w] = "get"]
    /\ UNCHANGED <<processes, queue, wbatch, wexc, reported, wconn>>
    /\ UNCHANGED dispatchVars
    /\ UNCHANGED notMultiVars

\* Mutant of WorkerWriteInfluxDBError: the failed batch is put back on the
\* queue for another attempt.
WorkerWriteInfluxDBErrorRequeue(w) ==
    /\ w \in Workers
    /\ wpc[w] = "write"
    /\ wlog' = [wlog EXCEPT ![w] = Append(@, [batch |-> wbatch[w],
                                              raised |-> "InfluxDBError"])]
    /\ reported' = reported \cup {wbatch[w]}
    /\ queue' = Append(queue, Batch(wbatch[w]))
    /\ wpc' = [wpc EXCEPT ![w] = "get"]
    /\ UNCHANGED <<processes, wbatch, wexc, task_done, wconn>>
    /\ UNCHANGED dispatchVars
    /\ UNCHANGED notMultiVars

\* Lines 103-104: write_api.write raises InfluxDBError, which is logged.
WorkerWriteInfluxDBError(w) ==
    /\ w \in Workers
    /\ wpc[w] = "write"
    /\ wlog' = [wlog EXCEPT ![w] = Append(@, [batch |-> wbatch[w],
                                              raised |-> "InfluxDBError"])]
    /\ reported' = reported \cup {wbatch[w]}
    /\ wpc' = [wpc EXCEPT ![w] = "get"]
    /\ UNCHANGED <<processes, queue, wbatch, wexc, task_done, wconn>>
    /\ UNCHANGED dispatchVars
    /\ UNCHANGED notMultiVars

\* write_api.write raises an exception that is no InfluxDBError: it leaves
\* write() and run(), and the process ends without _close().
WorkerWriteOtherException(w) ==
    /\ w \in Workers
    /\ wpc[w] = "write"
    /\ wlog' = [wlog EXCEPT ![w] = Append(@, [batch |-> wbatch[w],
                                              raised |-> "Exception"])]
    /\ wpc' = [wpc EXCEPT ![w] = "died"]
    /\ wexc' = [wexc EXCEPT ![w] = "Exception"]
    /\ UNCHANGED <<processes, queue, wbatch, reported, task_done, wconn>>
    /\ UNCHANGED dispatchVars
    /\ UNCHANGED notMultiVars

Worker(w) ==
    \/ WorkerInitOk(w)
    \/ WorkerInitFail(w)
    \/ WorkerGet(w)
    \/ WorkerWriteOk(w)
    \/ WorkerWriteInfluxDBError(w)
    \/ WorkerWriteOtherException(w)

MultiNext ==
    \/ StartWorkers
    \/ Write
    \/ PutBatch
    \/ Completed
    \/ Exit
    \/ PutSentinel
    \/ StartJoin
    \/ JoinProcess
    \/ StopReturn
    \/ \E w \in 1..cpu_count : Worker(w)

MultiSpec == MultiInit /\ [][MultiNext]_vars

\* ==================================================== chunking functions
\* The concatenation of the chunks of a list of chunks.
RECURSIVE Concat(_)
Concat(cs) == IF cs = <<>> THEN <<>> ELSE Head(cs) \o Concat(Tail(cs))

\* Arguments of the fixed-count chunking: a list of up to MaxListLen items
\* and a chunk size n >= 1.
FixedArgs ==
    \E len \in 0..MaxListLen :
        /\ arg_lst = [i \in 1..len |-> i]
        /\ arg_w = [i \in 1..len |-> 0]
        /\ arg_target = 0
        /\ arg_n \in 1..MaxChunk

\* Arguments of the cumulative chunking: a list of up to MaxLen items, the
\* length of the "field" of each item and a target length.
CumulativeArgs ==
    \E len \in 0..MaxLen :
        /\ arg_lst = [i \in 1..len |-> i]
        /\ arg_w \in [1..len -> 0..MaxFieldLen]
        /\ arg_target \in 0..MaxTarget
        /\ arg_n = 1

ChunkInit ==
    /\ ClientIdle
    /\ DrainIdle
    /\ ConvertIdle
    /\ MultiIdle
    /\ MetricIdle
    /\ FixedArgs \/ CumulativeArgs
    /\ applied = "none"
    /\ result = <<>>

\* list(chunks(lst, n)) with the chunks of client.py.
ApplyFixed ==
    /\ applied = "none"
    /\ result' = fixed_chunks(arg_lst, arg_n)
    /\ applied' = "fixed"
    /\ UNCHANGED <<arg_lst, arg_w, arg_target, arg_n>>
    /\ UNCHANGED <<clientVars, multiVars, metricVars, drainVars, convertVars>>

\* list(chunks(lst, target_length)) with the chunks of influx_client.py.
ApplyCumulative ==
    /\ applied = "none"
    /\ result' = chunks(arg_lst, arg_w, arg_target)
    /\ applied' = "cumulative"
    /\ UNCHANGED <<arg_lst, arg_w, arg_target, arg_n>>
    /\ UNCHANGED <<clientVars, multiVars, metricVars, drainVars, convertVars>>

ChunkNext ==
    \/ ApplyFixed
    \/ ApplyCumulative

ChunkSpec == ChunkInit /\ [][ChunkNext]_vars

\* ================================================ InfluxMetric construction
\* The kinds of value a measurement argument can be: a non-empty string, the
\* empty string, or a number.
MeasurementKinds == {"str", "empty", "int"}

\* The kinds of value a field can hold; complex stands for every type that
\* is none of str, int, float, bool and datetime.
ValueKinds == {"str", "int", "float", "bool", "datetime", "complex"}

\* The arguments of InfluxMetric(measurement=..., fields=...): fields is a
\* dict, given by the kinds of its values; the empty set is the empty dict.
MetricArgs == [measurement : MeasurementKinds, fields : SUBSET ValueKinds]

\* __post_init__: check_attributes passes for every dataclass instance; a
\* measurement, fields or tags of another type than expected raises a
\* TypeError that is caught at once, the value is passed through
\* _convert_to_expected_type (a number becomes its string, anything else
\* is returned as it is) and set again.  The values of fields are not
\* looked at, and nothing is raised.
post_init(a) ==
    [a EXCEPT !.measurement = IF @ = "int" THEN "str" ELSE @]

\* The fields of the dataclass, in the order of their declaration; asdict
\* has one key for each.
dataclass_fields == <<"measurement", "fields", "time", "tags", "write_precision">>

\* __len__: len(asdict(self)).
metric_len == Len(dataclass_fields)

\* __iter__: the attributes yielded, in order.
metric_iter == <<"measurement", "time", "fields", "tags">>

\* The integer indexes given to __getitem__.
Indexes == 0..4

\* __getitem__ with an integer index: the attribute returned.
metric_getitem(i) ==
    IF i = 0 THEN "measurement"
    ELSE IF i = 1 THEN "fields"
    ELSE IF i = 2 THEN "time"
    ELSE IF i = 3 THEN "tags"
    ELSE "IndexError"

\* The write_precision arguments: None, the four precisions of InfluxDB, a
\* string that is none of them, and a value that is not a string.
ValidPrecisions == {"ns", "us", "ms", "s"}
Precisions == {"None", "m", "int"} \cup ValidPrecisions

\* verify_write_precision with a return True as its last statement.
verify_write_precision_true(p) ==
    IF p \in {"None", "int"} THEN "AssertionError"
    ELSE IF p \notin ValidPrecisions THEN "AssertionError"
    ELSE "True"

\* verify_write_precision: two assert statements and no return statement,
\* so the call returns None when both pass.
verify_write_precision(p) ==
    IF p \in {"None", "int"} THEN "AssertionError"
    ELSE IF p \notin ValidPrecisions THEN "AssertionError"
    ELSE "None"

\* assert <value>: passes for a true value; None is false.
assert_stmt(value) ==
    IF value = "True" THEN "passed" ELSE "AssertionError"

\* Lines 405-408 of write(): None selects the default precision, any other
\* value goes through assert verify_write_precision(write_precision), where
\* an exception of the call itself comes before the assert.
write_precision_guard(p) ==
    IF p = "None" THEN "passed"
    ELSE IF verify_write_precision(p) = "AssertionError" THEN "AssertionError"
    ELSE assert_stmt(verify_write_precision(p))

MetricInit ==
    /\ ClientIdle
    /\ DrainIdle
    /\ ConvertIdle
    /\ MultiIdle
    /\ ChunkIdle
    /\ m_args \in MetricArgs
    /\ metric = m_args
    /\ mstate = "args"
    /\ m_len = -1
    /\ m_iter = <<>>
    /\ m_item = [index |-> -1, value |-> "unset"]
    /\ arg_precision \in Precisions
    /\ verified = "unset"
    /\ asserted = "unset"

\* InfluxMetric(**m_args) returns the instance.
Construct ==
    /\ mstate = "args"
    /\ metric' = post_init(m_args)
    /\ mstate' = "constructed"
    /\ UNCHANGED <<m_args, seqVars, precisionVars>>
    /\ UNCHANGED <<clientVars, multiVars, chunkVars, drainVars, convertVars>>

\* client.buffer.append(metric).
BufferMetric ==
    /\ mstate = "constructed"
    /\ mstate' = "buffered"
    /\ UNCHANGED <<m_args, metric, seqVars, precisionVars>>
    /\ UNCHANGED <<clientVars, multiVars, chunkVars, drainVars, convertVars>>

\* The scheduler pops the metric into a batch and hands it to write().
FlushMetric ==
    /\ mstate = "buffered"
    /\ mstate' = "flushed"
    /\ UNCHANGED <<m_args, metric, seqVars, precisionVars>>
    /\ UNCHANGED <<clientVars, multiVars, chunkVars, drainVars, convertVars>>

\* len(metric) on a constructed metric.
MetricLen ==
    /\ mstate = "constructed"
    /\ m_len = -1
    /\ m_len' = metric_len
    /\ UNCHANGED <<m_args, metric, mstate, m_iter, m_item, precisionVars>>
    /\ UNCHANGED <<clientVars, multiVars, chunkVars, drainVars, convertVars>>

\* list(metric) on a constructed metric.
MetricIter ==
    /\ mstate = "constructed"
    /\ m_iter = <<>>
    /\ m_iter' = metric_iter
    /\ UNCHANGED <<m_args, metric, mstate, m_len, m_item, precisionVars>>
    /\ UNCHANGED <<clientVars, multiVars, chunkVars, drainVars, convertVars>>

\* metric[i] on a constructed metric.
MetricGetItem ==
    /\ mstate = "constructed"
    /\ m_item.index = -1
    /\ \E i \in Indexes : m_item' = [index |-> i, value |-> metric_getitem(i)]
    /\ UNCHANGED <<m_args, metric, mstate, m_len, m_iter, precisionVars>>
    /\ UNCHANGED <<clientVars, multiVars, chunkVars, drainVars, convertVars>>

\* verify_write_precision(arg_precision), called on its own.
VerifyWritePrecision ==
    /\ verified = "unset"
    /\ verified' = verify_write_precision(arg_precision)
    /\ UNCHANGED <<m_args, metric, mstate, seqVars, arg_precision, asserted>>
    /\ UNCHANGED <<clientVars, multiVars, chunkVars, drainVars, convertVars>>

\* write(metrics, write_precision=arg_precision) up to line 408.
WriteWithPrecision ==
    /\ asserted = "unset"
    /\ asserted' = write_precision_guard(arg_precision)
    /\ UNCHANGED <<m_args, metric, mstate, seqVars, arg_precision, verified>>
    /\ UNCHANGED <<clientVars, multiVars, chunkVars, drainVars, convertVars>>

MetricNext ==
    \/ Construct
    \/ BufferMetric
    \/ FlushMetric
    \/ MetricLen
    \/ MetricIter
    \/ MetricGetItem
    \/ VerifyWritePrecision
    \/ WriteWithPrecision

MetricSpec == MetricInit /\ [][MetricNext]_vars

\* ================================================= start() called repeatedly
\* Each call of start() creates and starts a new thread that runs
\* write_periodically on the same buffer; self.write_thread then names the
\* newest one.  The threads are numbered in the order of the calls.
Threads == 1..MaxStarts

\* The values of write_batch_size that are tried: from 1 up to one more
\* than the module constant WRITE_BATCH_SIZE, which is also the default.
ConfiguredBatchSizes == 1..(WRITE_BATCH_SIZE + 1)

DrainInit ==
    /\ ClientIdle
    /\ MultiIdle
    /\ ChunkIdle
    /\ MetricIdle
    /\ ConvertIdle
    /\ cfg_write_batch_size \in ConfiguredBatchSizes
    /\ started = 0
    /\ tpc = [t \in Threads |-> "none"]
    /\ tn = [t \in Threads |-> 0]
    /\ tmetrics = [t \in Threads |-> <<>>]

\* What a step of one of the threads leaves alone; the configured
\* write_batch_size is set once, by from_params or from_config_file.
notDrainVars == <<nextId, evicted, now, spc, exc, extractVars, writeVars,
                  configVars, closeVars, multiVars, chunkVars, metricVars,
                  convertVars, cfg_write_batch_size>>

\* start(), lines 114-118: no check whether a thread is already running.
StartThread ==
    /\ started < MaxStarts
    /\ started' = started + 1
    /\ tpc' = [tpc EXCEPT ![started + 1] = "loop"]
    /\ UNCHANGED <<tn, tmetrics, buffer, sincePop, last_write_time>>
    /\ UNCHANGED notDrainVars

\* Lines 105-106 in thread t, with a true condition.
DrainTickFlush(t) ==
    /\ tpc[t] = "loop"
    /\ FlushDecision
    /\ tpc' = [tpc EXCEPT ![t] = "size"]
    /\ UNCHANGED <<started, tn, tmetrics, buffer, sincePop, last_write_time>>
    /\ UNCHANGED notDrainVars

\* Lines 105-106 in thread t, with a false condition.
DrainTickIdle(t) ==
    /\ tpc[t] = "loop"
    /\ ~FlushDecision
    /\ UNCHANGED vars

\* Line 109 in thread t: range(min(WRITE_BATCH_SIZE, len(self.buffer))).
DrainSize(t) ==
    /\ tpc[t] = "size"
    /\ tn' = [tn EXCEPT ![t] = BatchCount(Len(buffer))]
    /\ tmetrics' = [tmetrics EXCEPT ![t] = <<>>]
    /\ tpc' = [tpc EXCEPT ![t] =
                  IF BatchCount(Len(buffer)) = 0 THEN "write" ELSE "pop"]
    /\ UNCHANGED <<started, buffer, sincePop, last_write_time>>
    /\ UNCHANGED notDrainVars

\* Line 108 in thread t: one popleft(); IndexError on an empty deque ends
\* the thread.
DrainPopleft(t) ==
    /\ tpc[t] = "pop"
    /\ IF buffer = <<>>
       THEN /\ tpc' = [tpc EXCEPT ![t] = "dead"]
            /\ UNCHANGED <<buffer, tmetrics, sincePop>>
       ELSE /\ tmetrics' = [tmetrics EXCEPT ![t] = Append(@, PopleftItem(buffer))]
            /\ buffer' = PopleftRest(buffer)
            /\ sincePop' = 0
            /\ tpc' = [tpc EXCEPT ![t] =
                          IF Len(tmetrics[t]) + 1 = tn[t] THEN "write" ELSE "pop"]
    /\ UNCHANGED <<started, tn, last_write_time>>
    /\ UNCHANGED notDrainVars

\* Lines 111-112 in thread t: self.write(metrics) returns and the time of
\* the write is stored.
DrainWrite(t) ==
    /\ tpc[t] = "write"
    /\ last_write_time' = now
    /\ tpc' = [tpc EXCEPT ![t] = "loop"]
    /\ UNCHANGED <<started, tn, tmetrics, buffer, sincePop>>
    /\ UNCHANGED notDrainVars

\* Line 111 in thread t: self.write(metrics) raises, which ends the thread.
DrainWriteRaises(t) ==
    /\ tpc[t] = "write"
    /\ tpc' = [tpc EXCEPT ![t] = "dead"]
    /\ UNCHANGED <<started, tn, tmetrics, buffer, sincePop, last_write_time>>
    /\ UNCHANGED notDrainVars

Drain(t) ==
    \/ DrainTickFlush(t)
    \/ DrainTickIdle(t)
    \/ DrainSize(t)
    \/ DrainPopleft(t)
    \/ DrainWrite(t)
    \/ DrainWriteRaises(t)

DrainNext ==
    \/ ProducerAppend
    \/ AdvanceTime
    \/ StartThread
    \/ \E t \in Threads : Drain(t)

DrainSpec == DrainInit /\ [][DrainNext]_vars

\* ============================================== convert() on dict records
\* A record the caller hands to write(): a dict, given by the set of its
\* keys, or an InfluxMetric, which always has all the dataclass fields.
RecordKeys == {"measurement", "time", "fields", "tags"}
DictRecords == [kind : {"dict"}, keys : SUBSET RecordKeys]
MetricRecords == [kind : {"InfluxMetric"}, keys : {RecordKeys}]
Records == DictRecords \cup MetricRecords

\* dict_to_point(data): a dataclass is copied by asdict and the copy is
\* taken apart; a dict is taken apart itself: data.pop("measurement"),
\* data.pop("time"), data.pop("fields"), each raising KeyError for a missing
\* key, and data.pop("tags") if there is such a key.  rec is the caller's
\* record after the call.
dict_to_point(r) ==
    IF r.kind = "InfluxMetric"
    THEN [rec |-> r, raised |-> "none"]
    ELSE IF "measurement" \notin r.keys
    THEN [rec |-> r, raised |-> "KeyError"]
    ELSE IF "time" \notin r.keys
    THEN [rec |-> [r EXCEPT !.keys = @ \ {"measurement"}],
          raised |-> "KeyError"]
    ELSE IF "fields" \notin r.keys
    THEN [rec |-> [r EXCEPT !.keys = @ \ {"measurement", "time"}],
          raised |-> "KeyError"]
    ELSE [rec |-> [r EXCEPT !.keys = @ \ {"measurement", "time", "fields", "tags"}],
          raised |-> "none"]

\* convert(metrics), lines 364-369: dict_to_point on each record in turn;
\* the first exception leaves the comprehension.
RECURSIVE ConvertFrom(_, _)
ConvertFrom(recs, i) ==
    IF i > Len(recs)
    THEN [recs |-> recs, raised |-> "none"]
    ELSE IF dict_to_point(recs[i]).raised # "none"
         THEN [recs |-> [recs EXCEPT ![i] = dict_to_point(recs[i]).rec],
               raised |-> dict_to_point(recs[i]).raised]
         ELSE ConvertFrom([recs EXCEPT ![i] = dict_to_point(recs[i]).rec], i + 1)

convert(recs) == ConvertFrom(recs, 1)

ConvertInit ==
    /\ ClientIdle
    /\ DrainIdle
    /\ MultiIdle
    /\ ChunkIdle
    /\ MetricIdle
    /\ \E len \in 1..MaxRecords : c_in \in [1..len -> Records]
    /\ c_recs = c_in
    /\ c_state = "args"

\* write(metrics) up to line 417: convert() returns the points, or raises.
Convert ==
    /\ c_state = "args"
    /\ c_recs' = convert(c_recs).recs
    /\ c_state' = IF convert(c_recs).raised = "none" THEN "converted"
                  ELSE convert(c_recs).raised
    /\ UNCHANGED c_in
    /\ UNCHANGED <<clientVars, multiVars, chunkVars, metricVars, drainVars>>

\* Lines 419-442 with every write_api.write returning: write() returns.
ConvertedWriteOk ==
    /\ c_state = "converted"
    /\ c_state' = "written"
    /\ UNCHANGED <<c_in, c_recs>>
    /\ UNCHANGED <<clientVars, multiVars, chunkVars, metricVars, drainVars>>

\* Lines 419-442 with a write_api.write that raises InfluxDBError: the
\* failure is logged and write() returns.
ConvertedWriteFailed ==
    /\ c_state = "converted"
    /\ c_state' = "failed"
    /\ UNCHANGED <<c_in, c_recs>>
    /\ UNCHANGED <<clientVars, multiVars, chunkVars, metricVars, drainVars>>

ConvertNext ==
    \/ Convert
    \/ ConvertedWriteOk
    \/ ConvertedWriteFailed

ConvertSpec == ConvertInit /\ [][ConvertNext]_vars

\* ================================================================ claims
\* The thread holds a completely extracted batch.
Extracted == spc \in {"write", "chunk", "finally", "stamp"}

\* The records of s are in append order.
InOrder(s) == \A i, j \in 1..Len(s) : i < j => s[i] < s[j]

C4_SizeFlush ==
    (spc = "loop" /\ Len(buffer) >= WRITE_BATCH_SIZE) => ENABLED TickFlush

\* C5: an extracted batch has min(WRITE_BATCH_SIZE, length of the buffer
\* when the extraction was sized) records, never more than WRITE_BATCH_SIZE.
C5_BatchSize ==
    Extracted =>
        /\ Len(metrics) = Min(WRITE_BATCH_SIZE, lenAtExtract)
        /\ Len(metrics) <= WRITE_BATCH_SIZE

\* C5 witness: a batch cut to WRITE_BATCH_SIZE from a longer buffer.
C5_Witness ==
    /\ Extracted
    /\ lenAtExtract > WRITE_BATCH_SIZE
    /\ Len(metrics) = WRITE_BATCH_SIZE

\* C6: during and after an extraction the batch is in append order and
\* holds older records than any record left in the buffer; no extracted
\* record is still in the buffer, and the rest keeps its order.
C6_OldestFirst ==
    (spc = "pop" \/ Extracted) =>
        /\ InOrder(metrics)
        /\ InOrder(buffer)
        /\ Range(metrics) \cap Range(buffer) = {}
        /\ \A m \in Range(metrics), b \in Range(buffer) : m < b

\* C6 witness: a batch of two records was taken and records remain.
C6_Witness ==
    /\ Extracted
    /\ Len(metrics) = WRITE_BATCH_SIZE
    /\ Len(buffer) >= 2

\* C7: every record that was in the buffer when the extraction began is in
\* exactly one place, the batch or the buffer, and both are in append order.
C7_NoneLost ==
    (spc = "pop" \/ Extracted) =>
        /\ \A r \in Range(atStart) :
               (r \in Range(metrics)) # (r \in Range(buffer))
        /\ InOrder(metrics)
        /\ InOrder(buffer)

\* C8: a batch whose write failed with InfluxDBError is dropped: no record
\* handed to the sink is in the buffer again, no record is handed to the
\* sink twice, and InfluxDBError never ends the thread, which goes on to
\* the next chunk and the next flush while producers keep appending.
C8_AtMostOnce ==
    /\ \A i \in 1..Len(sinkLog) :
           Range(sinkLog[i].batch) \cap Range(buffer) = {}
    /\ \A i, j \in 1..Len(sinkLog) :
           i # j => Range(sinkLog[i].batch) \cap Range(sinkLog[j].batch) = {}
    /\ exc # "InfluxDBError"
    /\ (raised = "InfluxDBError" /\ spc = "finally") => ENABLED LogOutcome
    /\ nextId < MaxAppends => ENABLED ProducerAppend

\* C8 witness: a write failed with InfluxDBError, a record appended after
\* that failure was flushed to the sink later, and records are buffered.
C8_Witness ==
    /\ Len(sinkLog) >= 2
    /\ sinkLog[1].raised = "InfluxDBError"
    /\ \E j \in 2..Len(sinkLog) :
           \E r \in Range(sinkLog[j].batch) :
               \A q \in Range(sinkLog[1].batch) : r > q + 1
    /\ buffer # <<>>

\* C9: every write_api.write call has exactly one outcome event, emitted
\* in call order, that carries the size of the batch and is FAILED exactly
\* when the call raised InfluxDBError and SUCCESS otherwise; the event of
\* the call in progress is still to come.
C9_OneEventPerAttempt ==
    /\ Len(sinkLog) = Len(events) + (IF spc = "finally" THEN 1 ELSE 0)
    /\ \A i \in 1..Len(events) :
           /\ events[i].size = Len(sinkLog[i].batch)
           /\ events[i].outcome \in {"SUCCESS", "FAILED"}
           /\ (events[i].outcome = "FAILED")
                  <=> (sinkLog[i].raised = "InfluxDBError")

\* C9 witness: a failed and a successful write have both been reported.
C9_Witness ==
    /\ \E i \in 1..Len(events) :
           events[i].outcome = "FAILED" /\ sinkLog[i].raised = "InfluxDBError"
    /\ \E i \in 1..Len(events) :
           events[i].outcome = "SUCCESS" /\ sinkLog[i].raised = "none"
    /\ spc = "loop"

\* C10: once close() has been called on a started client, the loop does
\* not begin another iteration after the one it is in (the end of an
\* iteration, line 112, is not followed by the loop head), and close() has
\* returned only with the thread ended.
C10_StopEndsLoop ==
    /\ [](closePc = "returned" => spc = "dead")
    /\ [][(closePc # "none" /\ spc = "stamp") => spc' # "loop"]_vars

StopReturned == mpc \in {"stopped", "closed"}

\* Batch b was handed to write_api.write by some writer, and the call returned.
Written(b) ==
    \E w \in Workers : \E i \in 1..Len(wlog[w]) :
        wlog[w][i].batch = b /\ wlog[w][i].raised = "none"

\* A bound of the kind C13 speaks of.  Any value below the number of batches
\* one run dispatches is exceeded in the same way.
ChannelBound == 1

\* C11: each call of stop_workers() puts exactly one termination signal per
\* writer on the queue before it joins, and it returns only after every one
\* of the num_workers writers has ended: in no state has stop_workers()
\* returned while a writer is still running.
C11_StopWaitsForAll ==
    /\ mpc \in {"join", "stopped", "closed"}
          => sentinelsPut = stopCalls * num_workers
    /\ StopReturned => \A w \in Workers : Ended(w)

\* C11 witness: stop_workers() has returned after a writer that wrote a
\* batch took its termination signal and left run().
C11_Witness ==
    /\ StopReturned
    /\ \E w \in Workers : wpc[w] = "exited" /\ wlog[w] # <<>>

\* C12: once stop_workers() has returned, no batch is left on the queue and
\* every batch that was put on it was written by a writer or was reported
\* by a writer as failed.
C12_NoBatchLost ==
    StopReturned =>
        /\ BatchesOf(queue) = <<>>
        /\ \A b \in dispatched : Written(b) \/ b \in reported

\* C13: the number of batches waiting on the queue never exceeds a fixed
\* bound, the put of the dispatcher being blocked while the queue is full.
C13_Backpressure == Len(BatchesOf(queue)) <= ChannelBound

\* C14: a writer whose initialization failed never gets a batch, and the
\* failure is raised to the caller of start_workers(), which therefore does
\* not go on as after a successful start.
C14_InitFailureSurfaced ==
    /\ \A w \in Workers :
          wexc[w] = "InitError" => (wlog[w] = <<>> /\ wbatch[w] = <<>>)
    /\ (\E w \in Workers : wexc[w] = "InitError") => mpc = "start_failed"

\* C15: each writer hands its batches to write_api.write in the order in
\* which they were put on the queue (records are numbered in that order).
C15_PerWorkerOrder ==
    \A w \in Workers : \A i, j \in 1..Len(wlog[w]) :
        i < j => Head(wlog[w][i].batch) < Head(wlog[w][j].batch)

\* C15 witness: one writer got and wrote both batches of a write() call.
C15_Witness ==
    \E w \in Workers :
        /\ Len(wlog[w]) >= 2
        /\ wlog[w][1].raised = "none"

\* ------------------------------------------- claims on the chunking functions
\* The summed weight of the items of a chunk.
RECURSIVE Weight(_)
Weight(chunk) ==
    IF chunk = <<>> THEN 0 ELSE arg_w[Head(chunk)] + Weight(Tail(chunk))

\* C16: fixed-count chunking of L items with chunk size n yields ceil(L/n)
\* chunks, each of exactly n items except the last, which holds between 1
\* and n items, and the chunks concatenated are the input.
C16_FixedCount ==
    applied = "fixed" =>
        /\ Len(result) = (Len(arg_lst) + arg_n - 1) \div arg_n
        /\ \A k \in 1..Len(result) :
              IF k < Len(result)
              THEN Len(result[k]) = arg_n
              ELSE Len(result[k]) >= 1 /\ Len(result[k]) <= arg_n
        /\ Concat(result) = arg_lst

\* C16 witness: 12 items with n = 5 give chunks of 5, 5 and 2 items.
C16_Witness ==
    /\ applied = "fixed"
    /\ Len(arg_lst) = 12
    /\ arg_n = 5
    /\ [k \in 1..Len(result) |-> Len(result[k])] = <<5, 5, 2>>

\* C17: cumulative chunking yields no chunk whose summed weight exceeds the
\* target, except a chunk of a single item whose own weight exceeds it.
C17_WeightBounded ==
    applied = "cumulative" =>
        \A k \in 1..Len(result) :
            \/ Weight(result[k]) <= arg_target
            \/ Len(result[k]) = 1

\* C17 witness: a chunk of several items that fills the target exactly,
\* and a chunk of one item heavier than the target.
C17_Witness ==
    /\ applied = "cumulative"
    /\ \E k \in 1..Len(result) :
          Len(result[k]) >= 2 /\ Weight(result[k]) = arg_target
    /\ \E k \in 1..Len(result) :
          Len(result[k]) = 1 /\ Weight(result[k]) > arg_target

\* C18: the chunks of the cumulative chunking, concatenated, are the input.
C18_ConcatIsInput ==
    applied = "cumulative" => Concat(result) = arg_lst

\* C18 witness: a list of three items was cut into several chunks.
C18_Witness ==
    /\ applied = "cumulative"
    /\ Len(arg_lst) >= 3
    /\ Len(result) >= 2
    /\ \E k \in 1..Len(result) : Len(result[k]) >= 2

\* -------------------------------------------------- claims on InfluxMetric
\* The record invariant: a non-empty name, a non-empty field map, and every
\* field value a string, an integer, a float, a boolean or an instant.
ValidRecord(m) ==
    /\ m.measurement = "str"
    /\ m.fields # {}
    /\ m.fields \subseteq {"str", "int", "float", "bool", "datetime"}

\* C20: a record that breaks the record invariant is rejected when it is
\* constructed, so every record that was constructed, appended to the
\* buffer or flushed satisfies the invariant.
C20_RejectedAtConstruction ==
    mstate \in {"constructed", "buffered", "flushed"} => ValidRecord(metric)

\* The number of write_api.write calls of writer w that returned.
Successes(w) ==
    Cardinality({i \in 1..Len(wlog[w]) : wlog[w][i].raised = "none"})

RECURSIVE SumSuccesses(_)
SumSuccesses(ws) ==
    IF ws = {} THEN 0
    ELSE LET w == CHOOSE x \in ws : TRUE
         IN Successes(w) + SumSuccesses(ws \ {w})

\* The write_api.write calls made with batch b, over all writers.
Attempts(b) ==
    UNION {{<<w, i>> : i \in {j \in 1..Len(wlog[w]) : wlog[w][j].batch = b}} :
              w \in Workers}

\* C22: a writer whose write_api.write raises InfluxDBError logs the batch
\* as failed, puts nothing back on the queue and goes back to queue.get();
\* no batch is handed to write_api.write twice; and task_done() was called
\* exactly once for each write that returned.
C22_FailedBatchDropped ==
    /\ [][\A w \in Workers :
            (/\ wpc[w] = "write"
             /\ Len(wlog'[w]) = Len(wlog[w]) + 1
             /\ wlog'[w][Len(wlog'[w])].raised = "InfluxDBError")
            => (/\ wpc'[w] = "get"
                /\ wbatch[w] \in reported'
                /\ queue' = queue
                /\ task_done' = task_done)]_vars
    /\ [](\A b \in dispatched : Cardinality(Attempts(b)) <= 1)
    /\ [](task_done = SumSuccesses(Workers))

\* C22 witness: a writer whose first batch failed with InfluxDBError wrote
\* its next batch, which was acknowledged.
C22_Witness ==
    \E w \in Workers :
        /\ Len(wlog[w]) = 2
        /\ wlog[w][1].raised = "InfluxDBError"
        /\ wlog[w][2].raised = "none"
        /\ task_done = 1

\* A writer that has taken an item from the queue, or is about to.
InReceiveLoop(w) ==
    wpc[w] \in {"get", "write"} \/ wlog[w] # <<>> \/ wbatch[w] # <<>>

C30_ClosedBeforeExit ==
    \A w \in Workers : Ended(w) => wconn[w] # "open"

\* ------------------------------------- further claims on the flush loop
\* The thread is inside a call of write().
InWrite == spc \in {"write", "chunk", "finally"}

\* C26: a missing org or bucket is reported when the client is started,
\* before any record is taken from the buffer: FastInfluxDBClientConfigError
\* is never raised by a flush that has already extracted records.
C26_ConfigErrorBeforeExtraction ==
    exc = "FastInfluxDBClientConfigError" => metrics = <<>>

\* C27: every call of write() made by the loop, however it ends, is followed
\* by the assignment of the current time to _last_write_time.
C27_ResetAfterEveryAttempt ==
    /\ [][(InWrite /\ ~InWrite') => spc' = "stamp"]_vars
    /\ [][(spc = "stamp" /\ spc' # "stamp") => last_write_time' = now]_vars

\* C29: the write_api opened by write() is open only while the chunks are
\* sent; it is closed when write() has returned and when an exception has
\* left write().
C29_WriteApiReleased == write_api_open => spc \in {"chunk", "finally"}

\* C29 witness: write_api.write raised an exception that is no InfluxDBError
\* for the second chunk of a call, after a first chunk failed with
\* InfluxDBError; the exception ended the thread and the write_api is closed.
C29_Witness ==
    /\ spc = "dead"
    /\ exc = "Exception"
    /\ ~write_api_open
    /\ Len(sinkLog) = 2
    /\ sinkLog[1].raised = "InfluxDBError"
    /\ sinkLog[2].raised = "Exception"

\* ------------------------------------------- claims on repeated start()
\* The threads that are running write_periodically.
Running == {t \in Threads : tpc[t] \notin {"none", "dead"}}

\* C21: at most one loop ever takes records from the buffer: a start() on a
\* client that is already started adds no second running consumer.
C21_SingleConsumer == Cardinality(Running) <= 1

\* C28: no thread calls write() with an empty batch.
C28_NoEmptyBatch ==
    \A t \in Threads : tpc[t] = "write" => tmetrics[t] # <<>>

\* --------------------------------- claims on the precision and the sequence
\* C24: verify_write_precision(p) returns True for p in ns, us, ms, s and
\* raises for every other value, and the assert on it in write() passes
\* exactly for the valid precisions.
C24_PrecisionAccepted ==
    /\ verified # "unset" =>
          IF arg_precision \in ValidPrecisions
          THEN verified = "True"
          ELSE verified = "AssertionError"
    /\ (asserted # "unset" /\ arg_precision # "None") =>
          (asserted = "passed" <=> arg_precision \in ValidPrecisions)

\* C25: len(metric) is the number of elements the iteration yields, which
\* is 4: measurement, time, fields, tags; metric[0] is the measurement.
C25_LenMatchesIteration ==
    /\ (m_len # -1 /\ m_iter # <<>>) =>
          (m_len = Len(m_iter) /\ m_len = 4)
    /\ m_iter # <<>> => m_iter = <<"measurement", "time", "fields", "tags">>
    /\ m_item.index = 0 => m_item.value = "measurement"

\* ------------------------------------------ claims on failures of write()
\* C32: no exception raised inside write() ends the background loop: a step
\* taken inside write() never leaves the thread terminated.
C32_WriteFailureKeepsLoop == [][InWrite => spc' # "dead"]_vars

\* C33: an outcome event with outcome SUCCESS is emitted only for a chunk
\* whose sink write returned without raising.
C33_SuccessOnlyIfWritten ==
    \A i \in 1..Len(events) :
        events[i].outcome = "SUCCESS" => sinkLog[i].raised = "none"

\* C34: the cumulative chunking yields no empty chunk, for every list and
\* every target.
C34_NoEmptyChunk ==
    applied = "cumulative" => \A i \in 1..Len(result) : result[i] # <<>>

\* --------------------------------------- claims on the writers' life cycle
\* No writer has ended by an exception.
NoWriterDied == \A w \in Workers : wpc[w] # "died"

\* C31: between __enter__ and __exit__ the writers stay alive: a writer
\* ends on a termination signal only during __exit__, and when __exit__ has
\* returned with no writer lost to an exception, no batch is left unreceived.
C31_WorkersOutliveWrite ==
    /\ \A w \in Workers : wpc[w] = "exited" => inExit
    /\ (mpc = "closed" /\ NoWriterDied) => BatchesOf(queue) = <<>>

\* C35: when stop_workers() has returned and every writer took its
\* termination signal, no termination signal is left on the queue.
C35_NoStaleSentinel ==
    (mpc \in {"stopped", "closed"} /\ NoWriterDied) =>
        \A i \in 1..Len(queue) : queue[i] # None

\* The items put on the queue so far, batches and termination signals.
items_put == Cardinality(dispatched) + sentinelsPut

\* The unfinished-task count of the JoinableQueue: one up for every put,
\* one down for every task_done().
unfinished_tasks == items_put - task_done

\* Every dispatched batch was written successfully.
AllWritten ==
    \A b \in dispatched :
        \E w \in Workers : \E i \in 1..Len(wlog[w]) :
            wlog[w][i].batch = b /\ wlog[w][i].raised = "none"

\* C39: once every dispatched batch is written and the writers are shut
\* down, every item taken from the queue was acknowledged once, and the
\* unfinished-task count is zero.
C39_DrainBalanced ==
    (mpc \in {"stopped", "closed"} /\ AllWritten
       /\ \A w \in Workers : wpc[w] = "exited") =>
        /\ task_done = items_put - Len(queue)
        /\ unfinished_tasks = 0

\* ------------------------------------------------------ claims on close()
\* C36: after close() of a started client the flush loop calls write() no
\* more: no step enters write() while the backend connection is closed.
C36_NoWriteAfterClose ==
    [][(client_closed /\ spc' = "write") => spc = "write"]_vars

\* ------------------------------------------ claims on the size of a flush
\* C37: the number of records extracted for one flush is at most the batch
\* size the client is configured with.
C37_ExtractionWithinConfigured ==
    \A t \in Threads : Len(tmetrics[t]) <= cfg_write_batch_size

\* ------------------------------------------- claims on the caller's records
\* C38: when write() has returned, after a success or after a delivery
\* failure, every record the caller passed in is as it was before the call.
C38_RecordsUnchanged ==
    c_state \in {"written", "failed"} => c_recs = c_in
====
